---- MODULE Spec2Model ----
(***************************************************************************)
(* The minicontratos ledger: the append-only span store (database.ts),     *)
(* content addressing and signing (crypto.ts), the contract view built     *)
(* from the spans of a trace and the integrity verifier (ledger.ts).       *)
(*                                                                         *)
(* Conventions.  Strings of the program that are only compared are TLA+    *)
(* strings.  An optional number (parent_id, completed_at) is 0 when        *)
(* the field is undefined; an optional object (confirmed_by, the identity  *)
(* record, body.input.parties, body.metadata) is the empty sequence when   *)
(* undefined and a one-element sequence when present.  Times are small     *)
(* integers, ordered as the ISO-8601 strings they stand for are.           *)
(***************************************************************************)
EXTENDS Integers, Sequences, FiniteSets, TLC

VARIABLES
    spans,      \* object store 'spans': span id -> Span
    contracts,  \* object store 'contracts': contract id (a trace id) -> Contract
    identity,   \* object store 'identity': <<>> or <<the record under key 'self'>>
    users,      \* object store 'users': user id -> User
    credentials,\* object store 'credentials': user id -> Credential
    session,    \* object store 'session': user id -> Session
    settings,   \* object store 'settings': key -> value
    generatedSpans, \* state of the contract page: the spans of the last reply
    inflight,   \* the appendToLedger calls that run side by side: call -> position
    lastOp      \* the call that completed last, with its outcome

\* the stores of the account
account == <<users, credentials, session, settings>>

\* what lives outside the stores
flows == <<generatedSpans, inflight>>

vars == <<spans, contracts, identity, users, credentials, session, settings,
          generatedSpans, inflight, lastOp>>

(***************************************************************************)
(* Bounds of the model.                                                    *)
(***************************************************************************)
NumIds == 3
NumVerifyIds == 2
NumQueryIds == 2
MaxParts == 3

SpanIds == 1..NumIds
\* the ids used where spans also differ in signer, parent and stored hash
VerifyIds == 1..NumVerifyIds
\* the ids used where spans also differ in trace, start time and signer
QueryIds == 1..NumQueryIds
TraceIds == {1, 2}
UserIds == {1, 2}
Times == {1, 2}


(***************************************************************************)
(* Small helpers over sequences and sets.                                  *)
(***************************************************************************)
RECURSIVE Concat(_)
Concat(ss) == IF ss = <<>> THEN <<>> ELSE Head(ss) \o Concat(Tail(ss))

RECURSIVE SetToSeq(_)
\* the numbers of a set in ascending order (the order of IndexedDB keys)
SetToSeq(S) ==
    IF S = {} THEN <<>>
    ELSE LET m == CHOOSE x \in S : \A y \in S : x <= y
         IN <<m>> \o SetToSeq(S \ {m})

Range(s) == {s[i] : i \in DOMAIN s}

\* Array.prototype.find: the first element that satisfies P, as an option
Find(s, P(_)) ==
    LET hits == SelectSeq(s, P)
    IN IF hits = <<>> THEN <<>> ELSE <<Head(hits)>>

(***************************************************************************)
(* Hashing (crypto.ts).  A digest is modelled by an ideal hash: the record *)
(* of the algorithm prefix and the text that was hashed, so two digests    *)
(* are equal exactly when the hashed texts are.                            *)
(***************************************************************************)
EmptyHash == [algo |-> "", hex |-> <<>>]

calculateHash(data) == [algo |-> "blake3", hex |-> data]

\* JSON.stringify of one top-level key of the copy made by calculateSpanHash
\* (hash blanked, signature dropped); undefined values are omitted.
FieldText(span, k) ==
    CASE k = "id" -> << <<"id", ToString(span.id)>> >>
      [] k = "trace_id" -> << <<"trace_id", ToString(span.trace_id)>> >>
      [] k = "parent_id" ->
            IF span.parent_id = 0 THEN <<>>
            ELSE << <<"parent_id", ToString(span.parent_id)>> >>
      [] k = "type" -> << <<"type", span.type>> >>
      [] k = "entity" -> << <<"entity", span.entity>> >>
      [] k = "body" ->
            << <<"body.action", span.body.action>> >>
            \o (IF span.body.input.title = "" THEN <<>>
                ELSE << <<"body.input.title", span.body.input.title>> >>)
            \o (IF span.body.input.description = "" THEN <<>>
                ELSE << <<"body.input.description", span.body.input.description>> >>)
            \o (IF span.body.input.parties = <<>> THEN <<>>
                ELSE << <<"body.input.parties", "{">> >>
                     \o [i \in DOMAIN span.body.input.parties[1] |->
                            <<"name", span.body.input.parties[1][i]>>])
            \o (IF span.body.metadata = <<>> THEN <<>>
                ELSE << <<"body.metadata.description",
                          span.body.metadata[1].description>> >>)
      [] k = "started_at" -> << <<"started_at", ToString(span.started_at)>> >>
      [] k = "completed_at" ->
            IF span.completed_at = 0 THEN <<>>
            ELSE << <<"completed_at", ToString(span.completed_at)>> >>
      [] k = "this" ->
            << <<"this.hash", "">>, <<"this.version", span.this.version>> >>
      [] k = "confirmed_by" ->
            IF span.confirmed_by = <<>> THEN <<>>
            ELSE << <<"confirmed_by.domain", span.confirmed_by[1].domain>>,
                    <<"confirmed_by.timestamp",
                      ToString(span.confirmed_by[1].timestamp)>>,
                    <<"confirmed_by.signer_id",
                      ToString(span.confirmed_by[1].signer_id)>> >>
      [] OTHER -> <<>>

\* the keys of spanForHashing, in the order of the object spread: the keys of
\* the span in insertion order ('this' and 'confirmed_by' keep their place when
\* the span has them and are added at the end otherwise)
SpreadKeys(span) ==
    span.keys
    \o (IF "this" \in Range(span.keys) THEN <<>> ELSE <<"this">>)
    \o (IF "confirmed_by" \in Range(span.keys) THEN <<>> ELSE <<"confirmed_by">>)

calculateSpanHash(span) ==
    LET ks == SpreadKeys(span)
    IN calculateHash(Concat([i \in DOMAIN ks |-> FieldText(span, ks[i])]))

(***************************************************************************)
(* Signatures (crypto.ts).  A key is the record of its owner and its kind; *)
(* an Ed25519 signature is modelled ideally: it names the signer and the   *)
(* signed data, and verifies under the public key of that signer only.     *)
(***************************************************************************)
PublicKey(u) == [kind |-> "public", owner |-> u]
PrivateKey(u) == [kind |-> "private", owner |-> u]

sign(data, privateKey) ==
    [algo |-> "ed25519", by |-> privateKey.owner, over |-> data]

\* signSpan is only called with the hash already in place or on a span whose
\* hash it fills in first; it returns the signature over span.this.hash
signSpan(span, privateKey) ==
    sign(IF span.this.hash = EmptyHash THEN calculateSpanHash(span)
         ELSE span.this.hash,
         privateKey)

\* crypto.subtle.verify rejects a key without the 'verify' usage (the private
\* key of a generated pair); verify() catches the exception and returns false
verify(data, signature, publicKey) ==
    /\ publicKey.kind = "public"
    /\ signature.by = publicKey.owner
    /\ signature.over = data

EmptySignature == [algo |-> "", by |-> 0, over |-> EmptyHash]

\* span.confirmed_by?.signature is truthy
HasSignature(span) ==
    /\ span.confirmed_by # <<>>
    /\ span.confirmed_by[1].signature # EmptySignature

verifySpan(span, publicKey) ==
    IF ~HasSignature(span) THEN FALSE
    ELSE IF span.this.hash # calculateSpanHash(span) THEN FALSE
    ELSE verify(span.this.hash, span.confirmed_by[1].signature, publicKey)

(***************************************************************************)
(* The spans store (database.ts).                                          *)
(***************************************************************************)
\* appendSpan written with db.put: an existing key is overwritten
appendSpanPut(store, span) ==
    [ok |-> TRUE,
     spans |-> [id \in DOMAIN store \cup {span.id} |->
                    IF id = span.id THEN span ELSE store[id]]]

\* db.add: a ConstraintError when the key exists, and then nothing is written
appendSpan(store, span) ==
    IF span.id \in DOMAIN store
    THEN [ok |-> FALSE, spans |-> store]
    ELSE [ok |-> TRUE, spans |-> store @@ (span.id :> span)]

\* a SpanFilter; an absent field is 0 or "" (both falsy, as undefined is).
\* limit is <<>> when absent and <<L>> when the caller supplies the number L
NoFilter ==
    [trace_id |-> 0, type |-> "", entity |-> "", user_id |-> 0,
     from |-> 0, to |-> 0, limit |-> <<>>]

RECURSIVE InsertByTimeDesc(_, _)
InsertByTimeDesc(sorted, x) ==
    IF sorted = <<>> THEN <<x>>
    ELSE IF Head(sorted).started_at >= x.started_at
         THEN <<Head(sorted)>> \o InsertByTimeDesc(Tail(sorted), x)
         ELSE <<x>> \o sorted

RECURSIVE SortByTimeDesc(_)
\* Array.prototype.sort with (a, b) => b.started_at.localeCompare(a.started_at):
\* newest first, stable
SortByTimeDesc(s) ==
    IF s = <<>> THEN <<>>
    ELSE InsertByTimeDesc(SortByTimeDesc(SubSeq(s, 1, Len(s) - 1)), s[Len(s)])

querySpans(store, filter) ==
    LET \* getAll of the store or of an index: in the order of the primary key
        keys == SetToSeq(DOMAIN store)
        all == [i \in DOMAIN keys |-> store[keys[i]]]
        ByTrace(s) == s.trace_id = filter.trace_id
        ByType(s) == s.type = filter.type
        ByEntity(s) == s.entity = filter.entity
        fetched == IF filter.trace_id # 0 THEN SelectSeq(all, ByTrace)
                   ELSE IF filter.type # "" THEN SelectSeq(all, ByType)
                   ELSE IF filter.entity # "" THEN SelectSeq(all, ByEntity)
                   ELSE all
        ByUser(s) == s.confirmed_by # <<>>
                     /\ s.confirmed_by[1].signer_id = filter.user_id
        From(s) == s.started_at >= filter.from
        To(s) == s.started_at <= filter.to
        f1 == IF filter.user_id # 0 THEN SelectSeq(fetched, ByUser) ELSE fetched
        f2 == IF filter.from # 0 THEN SelectSeq(f1, From) ELSE f1
        f3 == IF filter.to # 0 THEN SelectSeq(f2, To) ELSE f2
        sorted == SortByTimeDesc(f3)
    IN \* if (filter.limit): undefined and 0 are both falsy
       IF filter.limit # <<>> /\ filter.limit[1] # 0
       THEN SubSeq(sorted, 1, IF filter.limit[1] < Len(sorted) THEN filter.limit[1]
                                 ELSE Len(sorted))
       ELSE sorted

getSpansByTrace(store, traceId) ==
    querySpans(store, [NoFilter EXCEPT !.trace_id = traceId])

(***************************************************************************)
(* The contract view (ledger.ts).                                          *)
(***************************************************************************)
RECURSIVE Join(_, _)
Join(names, sep) ==
    IF names = <<>> THEN ""
    ELSE IF Len(names) = 1 THEN names[1]
    ELSE names[1] \o sep \o Join(Tail(names), sep)

\* the string an id stands for: the short id of the spec's scenario for id 1,
\* a UUIDv7 (cut short here) for the others; ids made within the same minute
\* have the first eight characters in common
IdText(id) == IF id = 1 THEN "s1" ELSE "018f3c2a-7b1" \o ToString(id)

\* String.prototype.slice(0, end)
slice(text, end) == SubSeq(text, 1, IF end < Len(text) THEN end ELSE Len(text))

\* extractContractTitle with the two tests in the other order
extractContractTitlePartiesFirst(span) ==
    LET input == span.body.input
    IN IF input.parties # <<>>
       THEN "Contrato entre " \o Join(input.parties[1], " e ")
       ELSE IF input.title # "" THEN input.title
            ELSE "Contrato " \o slice(IdText(span.id), 8)

extractContractTitle(span) ==
    LET input == span.body.input
    IN IF input.title # "" THEN input.title
       ELSE IF input.parties # <<>>
            THEN "Contrato entre " \o Join(input.parties[1], " e ")
            ELSE "Contrato " \o slice(IdText(span.id), 8)

extractContractDescription(span) ==
    IF span.body.input.description # "" THEN span.body.input.description
    ELSE IF span.body.metadata # <<>> THEN span.body.metadata[1].description
    ELSE ""

IsCreated(s) == s.type = "contract.created"
IsCancelled(s) == s.type = "contract.cancelled"
IsCompleted(s) == s.type = "contract.completed"

SpanIdsOf(ss) == [i \in DOMAIN ss |-> ss[i].id]

\* the record updateContractFromSpans builds when the store has none
NewContract(traceId, creationSpan, ss, now) ==
    [id |-> traceId,
     title |-> extractContractTitle(creationSpan),
     description |-> extractContractDescription(creationSpan),
     parties |-> IF creationSpan.body.input.parties # <<>>
                 THEN creationSpan.body.input.parties[1] ELSE <<>>,
     status |-> "active",
     created_at |-> creationSpan.started_at,
     updated_at |-> now,
     completed_at |-> 0,
     spans |-> SpanIdsOf(ss),
     metadata |-> creationSpan.body.metadata]

\* the update branch with the two status tests in the other order
UpdatedContractCompletedFirst(contract, ss, now) ==
    LET cancelledSpan == Find(ss, IsCancelled)
        completedSpan == Find(ss, IsCompleted)
        base == [contract EXCEPT !.updated_at = now, !.spans = SpanIdsOf(ss)]
    IN IF completedSpan # <<>>
       THEN [base EXCEPT !.status = "completed",
                         !.completed_at = completedSpan[1].completed_at]
       ELSE IF cancelledSpan # <<>>
            THEN [base EXCEPT !.status = "cancelled",
                              !.completed_at = cancelledSpan[1].completed_at]
            ELSE base

\* the update branch taking created_at from the creation span again
UpdatedContractRecreated(contract, ss, now) ==
    LET cancelledSpan == Find(ss, IsCancelled)
        completedSpan == Find(ss, IsCompleted)
        base == [contract EXCEPT !.updated_at = now, !.spans = SpanIdsOf(ss),
                                 !.created_at = Find(ss, IsCreated)[1].started_at]
    IN IF cancelledSpan # <<>>
       THEN [base EXCEPT !.status = "cancelled",
                         !.completed_at = cancelledSpan[1].completed_at]
       ELSE IF completedSpan # <<>>
            THEN [base EXCEPT !.status = "completed",
                              !.completed_at = completedSpan[1].completed_at]
            ELSE base

\* the record updateContractFromSpans writes back when the store has one
UpdatedContract(contract, ss, now) ==
    LET cancelledSpan == Find(ss, IsCancelled)
        completedSpan == Find(ss, IsCompleted)
        base == [contract EXCEPT !.updated_at = now, !.spans = SpanIdsOf(ss)]
    IN IF cancelledSpan # <<>>
       THEN [base EXCEPT !.status = "cancelled",
                         !.completed_at = cancelledSpan[1].completed_at]
       ELSE IF completedSpan # <<>>
            THEN [base EXCEPT !.status = "completed",
                              !.completed_at = completedSpan[1].completed_at]
            ELSE base

\* updateContractFromSpans taking the newest span of the trace for the
\* creation span when the trace has none
updateContractFromSpansAnySpan(store, cs, traceId, now) ==
    LET ss == getSpansByTrace(store, traceId)
        found == Find(ss, IsCreated)
        creationSpan == IF found = <<>> /\ ss # <<>> THEN <<ss[1]>> ELSE found
    IN IF ss = <<>> THEN cs
       ELSE IF traceId \notin DOMAIN cs
            THEN cs @@ (traceId :> NewContract(traceId, creationSpan[1], ss, now))
            ELSE [cs EXCEPT ![traceId] = UpdatedContract(cs[traceId], ss, now)]

\* the contracts store after updateContractFromSpans(traceId) at time now
updateContractFromSpans(store, cs, traceId, now) ==
    LET ss == getSpansByTrace(store, traceId)
        creationSpan == Find(ss, IsCreated)
    IN IF ss = <<>> THEN cs
       ELSE IF creationSpan = <<>> THEN cs
       ELSE IF traceId \notin DOMAIN cs
            THEN cs @@ (traceId :> NewContract(traceId, creationSpan[1], ss, now))
            ELSE [cs EXCEPT ![traceId] = UpdatedContract(cs[traceId], ss, now)]

(***************************************************************************)
(* appendToLedger (ledger.ts): the span it hands to appendSpan.            *)
(***************************************************************************)
\* step 1 computing the hash whatever the caller gave
WithHashRecomputed(span) == [span EXCEPT !.this.hash = calculateSpanHash(span)]

\* step 1 left out: the hash stays as the caller gave it
WithHashKept(span) == span

WithHash(span) ==
    IF span.this.hash = EmptyHash
    THEN [span EXCEPT !.this.hash = calculateSpanHash(span)]
    ELSE span

Signed(span, ident, now) ==
    IF ident # <<>> /\ span.confirmed_by = <<>>
    THEN [span EXCEPT
            !.confirmed_by =
                <<[signature |-> signSpan(span, ident[1].private_key_handle),
                   domain |-> "minicontratos.local",
                   timestamp |-> now,
                   signer_id |-> ident[1].user_id]>>,
            !.keys = IF "confirmed_by" \in Range(span.keys) THEN span.keys
                     ELSE Append(span.keys, "confirmed_by")]
    ELSE span

PreparedSpan(span, ident, now) == Signed(WithHash(span), ident, now)

\* updateContractFromSpans(traceId) throws: building a new record reads
\* creationSpan.body.input, a TypeError when the creation span has no body
updateContractThrows(store, cs, traceId) ==
    LET ss == getSpansByTrace(store, traceId)
        creationSpan == Find(ss, IsCreated)
    IN /\ creationSpan # <<>>
       /\ traceId \notin DOMAIN cs
       /\ "body" \notin Range(creationSpan[1].keys)

\* appendToLedger(span) over the stores: span is the caller's object as the
\* call leaves it, stored tells whether appendSpan went through and ok whether
\* the call returned without an exception
\* steps 3 and 4 of appendToLedger, for the span s as steps 1 and 2 left it
appendPrepared(store, cs, s, now) ==
    LET r == appendSpan(store, s)
    IN IF ~r.ok
       THEN [ok |-> FALSE, stored |-> FALSE, span |-> s, spans |-> store,
             contracts |-> cs, projected |-> 0]
       ELSE IF s.entity # "minicontrato"
       THEN [ok |-> TRUE, stored |-> TRUE, span |-> s, spans |-> r.spans,
             contracts |-> cs, projected |-> 0]
       ELSE IF updateContractThrows(r.spans, cs, s.trace_id)
       THEN [ok |-> FALSE, stored |-> TRUE, span |-> s, spans |-> r.spans,
             contracts |-> cs, projected |-> s.trace_id]
       ELSE [ok |-> TRUE, stored |-> TRUE, span |-> s, spans |-> r.spans,
             contracts |-> updateContractFromSpans(r.spans, cs, s.trace_id, now),
             projected |-> s.trace_id]

appendToLedger(store, cs, ident, span, now) ==
    appendPrepared(store, cs, PreparedSpan(span, ident, now), now)

(***************************************************************************)
(* verifyLedger (ledger.ts).                                               *)
(***************************************************************************)
RECURSIVE InsertByCreatedDesc(_, _)
InsertByCreatedDesc(sorted, x) ==
    IF sorted = <<>> THEN <<x>>
    ELSE IF Head(sorted).created_at >= x.created_at
         THEN <<Head(sorted)>> \o InsertByCreatedDesc(Tail(sorted), x)
         ELSE <<x>> \o sorted

RECURSIVE SortByCreatedDesc(_)
SortByCreatedDesc(s) ==
    IF s = <<>> THEN <<>>
    ELSE InsertByCreatedDesc(SortByCreatedDesc(SubSeq(s, 1, Len(s) - 1)), s[Len(s)])

getAllContracts(cs) ==
    LET keys == SetToSeq(DOMAIN cs)
    IN SortByCreatedDesc([i \in DOMAIN keys |-> cs[keys[i]]])

HashMismatch == "Hash mismatch"
InvalidSignature == "Invalid signature"
ParentNotFound == "Parent span not found"

\* the errors one pass of the inner loop pushes for a span of the group ss
SpanErrors(span, ss, ident) ==
    (IF span.this.hash # calculateSpanHash(span)
     THEN <<[span_id |-> span.id, error |-> HashMismatch]>> ELSE <<>>)
    \o (IF HasSignature(span) /\ ident # <<>>
           /\ ~verifySpan(span, ident[1].private_key_handle)
        THEN <<[span_id |-> span.id, error |-> InvalidSignature]>> ELSE <<>>)
    \o (IF span.parent_id # 0
           /\ ~\E i \in DOMAIN ss : ss[i].id = span.parent_id
        THEN <<[span_id |-> span.id, error |-> ParentNotFound]>> ELSE <<>>)

\* the inner loop leaving at the first span that has an error
GroupErrorsFailFast(ss, ident) ==
    LET HasError(x) == SpanErrors(x, ss, ident) # <<>>
        bad == Find(ss, HasError)
    IN IF bad = <<>> THEN <<>> ELSE SpanErrors(bad[1], ss, ident)

\* the inner loop over the spans of one contract
GroupErrors(ss, ident) ==
    Concat([i \in DOMAIN ss |-> SpanErrors(ss[i], ss, ident)])

RECURSIVE VerifyContracts(_, _, _, _)
\* the outer loop: acc is {total, errors} so far
VerifyContracts(cl, store, ident, acc) ==
    IF cl = <<>> THEN acc
    ELSE LET ss == getSpansByTrace(store, Head(cl).id)
         IN VerifyContracts(Tail(cl), store, ident,
                [total |-> acc.total + Len(ss),
                 errors |-> acc.errors \o GroupErrors(ss, ident)])

RECURSIVE VerifyContractsAnyTrace(_, _, _, _)
\* the outer loop with the parent looked up among all stored spans
VerifyContractsAnyTrace(cl, store, ident, acc) ==
    IF cl = <<>> THEN acc
    ELSE LET ss == getSpansByTrace(store, Head(cl).id)
             keys == SetToSeq(DOMAIN store)
             all == [i \in DOMAIN keys |-> store[keys[i]]]
         IN VerifyContractsAnyTrace(Tail(cl), store, ident,
                [total |-> acc.total + Len(ss),
                 errors |-> acc.errors
                            \o Concat([i \in DOMAIN ss |-> SpanErrors(ss[i], all, ident)])])

\* verifyLedger with that outer loop
verifyLedgerAnyTrace(store, cs, ident) ==
    LET r == VerifyContractsAnyTrace(getAllContracts(cs), store, ident,
                                     [total |-> 0, errors |-> <<>>])
    IN [valid |-> r.errors = <<>>, total |-> r.total, errors |-> r.errors]

verifyLedger(store, cs, ident) ==
    LET r == VerifyContracts(getAllContracts(cs), store, ident,
                             [total |-> 0, errors |-> <<>>])
    IN [valid |-> r.errors = <<>>, total |-> r.total, errors |-> r.errors]

(***************************************************************************)
(* Inputs.                                                                 *)
(***************************************************************************)
\* the body of the creation span of the spec's scenario
PartiesBody ==
    [action |-> "create_contract",
     input |-> [title |-> "", description |-> "", parties |-> << <<"Jo">> >>],
     metadata |-> <<>>]

\* a span object as a caller builds it: keys in the order of the Span
\* interface, optional keys present only when they have a value
MkSpan(id, trace, parent, type, entity, body, started, completed, hash, cb) ==
    [id |-> id, trace_id |-> trace, parent_id |-> parent, type |-> type,
     entity |-> entity, body |-> body, started_at |-> started,
     completed_at |-> completed, this |-> [hash |-> hash, version |-> "1.0.0"],
     confirmed_by |-> cb,
     keys |-> <<"id", "trace_id">>
              \o (IF parent # 0 THEN <<"parent_id">> ELSE <<>>)
              \o <<"type", "entity", "body", "started_at">>
              \o (IF completed # 0 THEN <<"completed_at">> ELSE <<>>)
              \o <<"this">>
              \o (IF cb # <<>> THEN <<"confirmed_by">> ELSE <<>>)]

\* type and entity of the spans the contract flows append
ContractKinds ==
    {<<"contract.created", "minicontrato">>,
     <<"contract.completed", "minicontrato">>,
     <<"contract.cancelled", "minicontrato">>,
     <<"payment.verified", "payment">>}

\* the completion times a span of a type is given: a completing span comes
\* with and without completed_at, a cancelling span with it
CompletedAtOf(type) ==
    IF type = "contract.completed" THEN {0, 2}
    ELSE IF type = "contract.cancelled" THEN {2}
    ELSE {0}

\* the trace the contract flows work on
LedgerTraces == {1}

\* spans of the contract flows: hash to be filled in, unsigned, no parent
LedgerInputs ==
    UNION {{MkSpan(id, t, 0, k[1], k[2], PartiesBody, 1, c, EmptyHash, <<>>) :
                c \in CompletedAtOf(k[1])} :
            id \in SpanIds, t \in LedgerTraces, k \in ContractKinds}

\* type and parent of the spans of the verification scenarios: a creation
\* span as the builder makes it (no parent), a creation span as the contract
\* page takes it from the model's answer (any parent), and an obligation span
\* (always with a parent)
VerifyKinds ==
    {<<"contract.created", 0>>, <<"contract.created", 1>>,
     <<"obligation.registered", 1>>}

VerifyInputs ==
    {MkSpan(id, t, k[2], k[1], "minicontrato", PartiesBody, 1, 0, EmptyHash, <<>>) :
        id \in VerifyIds, t \in TraceIds, k \in VerifyKinds}

\* the readings of the clock during an appendToLedger call
AppendTimes == {1}

NoReport == [valid |-> TRUE, total |-> 0, errors |-> <<>>]

\* at is the reading of the clock during the call, 0 for a call that does
\* not read the clock; report is what the call returned, or for an
\* appendToLedger that went through the span object the caller passed
Op(name, id, trace, ok, projected, report) ==
    [op |-> name, id |-> id, trace |-> trace, ok |-> ok,
     projected |-> projected, report |-> report, at |-> 0]

(***************************************************************************)
(* Operations.                                                             *)
(***************************************************************************)
Init ==
    /\ spans = <<>>
    /\ contracts = <<>>
    /\ identity = <<>>
    /\ users = <<>>
    /\ credentials = <<>>
    /\ session = <<>>
    /\ settings = <<>>
    /\ generatedSpans = <<>>
    /\ inflight = <<>>
    /\ lastOp = Op("init", 0, 0, TRUE, 0, NoReport)

\* appendToLedger(span); now is the reading of the clock during the call.
\* The hash and the signature are written into the caller's object before
\* db.add runs; when db.add rejects the id that object is dropped with the
\* failed call, so it is only worked out for an id that is free.
Appended(span, now, r) ==
    /\ spans' = r.spans
    /\ contracts' = r.contracts
    /\ lastOp' = [Op("appendToLedger", span.id, span.trace_id, r.ok,
                     r.projected, NoReport)
                     EXCEPT !.at = now,
                            !.report = IF r.stored THEN [span |-> span] ELSE NoReport]
    /\ UNCHANGED <<identity, account, flows>>

AppendToLedger(span, now) ==
    Appended(span, now, appendToLedger(spans, contracts, identity, span, now))

\* updateContractFromSpans(traceId), called on its own (CreateContract.tsx)
UpdateContractFromSpans(traceId, now) ==
    /\ contracts' = IF updateContractThrows(spans, contracts, traceId) THEN contracts
                    ELSE updateContractFromSpans(spans, contracts, traceId, now)
    /\ lastOp' = [Op("updateContractFromSpans", 0, traceId,
                        ~updateContractThrows(spans, contracts, traceId), traceId,
                        NoReport)
                     EXCEPT !.at = now]
    /\ UNCHANGED <<spans, identity, account, flows>>

DeleteContract(id) ==
    /\ contracts' = [t \in DOMAIN contracts \ {id} |-> contracts[t]]
    /\ lastOp' = Op("deleteContract", 0, id, TRUE, 0, NoReport)
    /\ UNCHANGED <<spans, identity, account, flows>>

\* saveIdentity with the key pair generated for user u (Onboarding.tsx)
SaveIdentity(u) ==
    /\ identity' = <<[id |-> "self", user_id |-> u, public_key |-> PublicKey(u),
                      private_key_handle |-> PrivateKey(u)]>>
    /\ lastOp' = Op("saveIdentity", 0, 0, TRUE, 0, NoReport)
    /\ UNCHANGED <<spans, contracts, account, flows>>

ClearAllData ==
    /\ spans' = <<>>
    /\ contracts' = <<>>
    /\ identity' = <<>>
    /\ users' = <<>>
    /\ credentials' = <<>>
    /\ session' = <<>>
    /\ settings' = <<>>
    /\ lastOp' = Op("clearAllData", 0, 0, TRUE, 0, NoReport)
    /\ UNCHANGED flows

VerifyLedger ==
    /\ lastOp' = Op("verifyLedger", 0, 0, TRUE, 0,
                    verifyLedger(spans, contracts, identity))
    /\ UNCHANGED <<spans, contracts, identity, account, flows>>

Next ==
    \/ \E span \in LedgerInputs, now \in AppendTimes : AppendToLedger(span, now)
    \/ \E t \in LedgerTraces, now \in Times : UpdateContractFromSpans(t, now)
    \/ \E t \in LedgerTraces : DeleteContract(t)
    \/ ClearAllData
    \/ VerifyLedger

Spec == Init /\ [][Next]_vars

(***************************************************************************)
(* Signing and verification: the ledger with a local identity.             *)
(***************************************************************************)
NextVerify ==
    \/ \E span \in VerifyInputs, now \in Times : AppendToLedger(span, now)
    \/ \E u \in UserIds : SaveIdentity(u)
    \/ VerifyLedger

SpecVerify == Init /\ [][NextVerify]_vars

\* a change made to a stored hash from outside the program
Corrupt(h) == [algo |-> "corrupt", hex |-> h.hex]

Tampered == {id \in DOMAIN spans : spans[id].this.hash.algo = "corrupt"}

\* the stored hash of one span of the ledger is changed
Tamper(id) ==
    /\ id \in DOMAIN spans
    /\ Tampered = {}
    /\ spans' = [spans EXCEPT ![id].this.hash = Corrupt(@)]
    /\ lastOp' = Op("tamper", id, spans[id].trace_id, TRUE, 0, NoReport)
    /\ UNCHANGED <<contracts, identity, account, flows>>

NextTamper ==
    \/ \E span \in VerifyInputs, now \in AppendTimes : AppendToLedger(span, now)
    \/ SaveIdentity(1)
    \/ VerifyLedger
    \/ \E id \in VerifyIds : Tamper(id)

SpecTamper == Init /\ [][NextTamper]_vars

(***************************************************************************)
(* Queries: querySpans over the ledgers the application can build.         *)
(***************************************************************************)
QueryKinds ==
    {<<"contract.created", "minicontrato">>, <<"payment.verified", "payment">>}

QueryInputs ==
    {MkSpan(id, t, 0, k[1], k[2], PartiesBody, st, 0, EmptyHash, <<>>) :
        id \in QueryIds, t \in TraceIds, k \in QueryKinds, st \in Times}

\* the time ranges a caller asks for: none, from 2, up to 1
Ranges == {<<0, 0>>, <<2, 0>>, <<0, 1>>}

\* the filters a caller passes without a limit: every field absent or supplied
FieldFilters ==
    {[trace_id |-> t, type |-> ty, entity |-> e, user_id |-> u,
      from |-> r[1], to |-> r[2], limit |-> <<>>] :
        t \in {0, 1}, ty \in {"", "contract.created"}, e \in {"", "payment"},
        u \in {0, 1}, r \in Ranges}

\* the filters a caller passes with a limit
LimitFilters ==
    {[NoFilter EXCEPT !.trace_id = t, !.limit = <<l>>] :
        t \in {0, 1}, l \in 0..NumQueryIds}

Filters == FieldFilters \cup LimitFilters

\* querySpans(filter); the call returns result
QuerySpans(filter) ==
    /\ lastOp' = [Op("querySpans", 0, 0, TRUE, 0, NoReport) EXCEPT
                     !.report = [filter |-> filter,
                                 result |-> querySpans(spans, filter)]]
    /\ UNCHANGED <<spans, contracts, identity, account, flows>>

NextQuery ==
    \/ \E span \in QueryInputs, now \in AppendTimes : AppendToLedger(span, now)
    \/ SaveIdentity(1)
    \/ \E filter \in Filters : QuerySpans(filter)

SpecQuery == Init /\ [][NextQuery]_vars

(***************************************************************************)
(* Span extraction (llm.ts).  A response text is a sequence of tokens: the *)
(* fence with the json tag, the bare fence, white space, prose, and the    *)
(* pieces of JSON text (an object literal, a number, brackets, commas).    *)
(***************************************************************************)
Tok(t, v) == [t |-> t, v |-> v]

\* three backticks followed by json
FenceJson == Tok("fence-json", 0)
\* three backticks
Fence == Tok("fence", 0)
Space == Tok("ws", 0)
Prose == Tok("prose", 0)

MinOf(S) == CHOOSE x \in S : \A y \in S : x <= y

RECURSIVE TrimLeft(_)
TrimLeft(r) == IF r # <<>> /\ Head(r) = Space THEN TrimLeft(Tail(r)) ELSE r

RECURSIVE TrimRight(_)
TrimRight(r) ==
    IF r # <<>> /\ r[Len(r)] = Space THEN TrimRight(SubSeq(r, 1, Len(r) - 1)) ELSE r

RECURSIVE matchAll(_)
\* response.matchAll(jsonBlockRegex): the captured group of every match, the
\* text between a json-tagged fence and the next fence, white space trimmed.  The lazy group ends at the next three backticks, which are
\* also the first characters of a following json-tagged fence.
matchAll(r) ==
    LET opens == {i \in DOMAIN r : r[i] = FenceJson}
    IN IF opens = {} THEN <<>>
       ELSE LET p == MinOf(opens)
                closes == {j \in DOMAIN r : j > p /\ r[j] \in {Fence, FenceJson}}
            IN IF closes = {} THEN <<>>
               ELSE LET q == MinOf(closes)
                    IN <<TrimRight(TrimLeft(SubSeq(r, p + 1, q - 1)))>>
                       \o matchAll(SubSeq(r, q + 1, Len(r)))

\* the value a JSON token of an object literal or a number stands for
ValueOf(tok) ==
    [kind |-> IF tok.t = "obj" THEN "object" ELSE "number", v |-> tok.v]

IsValueTok(tok) == tok.t \in {"obj", "num"}

\* JSON.parse of a text: ok is FALSE when it throws a SyntaxError
JSONparse(text) ==
    LET NotSpace(tok) == tok.t # "ws"
        c == SelectSeq(text, NotSpace)
        inner == SubSeq(c, 2, Len(c) - 1)
        listed ==
            \/ inner = <<>>
            \/ /\ Len(inner) % 2 = 1
               /\ \A i \in DOMAIN inner :
                     IF i % 2 = 1 THEN IsValueTok(inner[i]) ELSE inner[i].t = ","
    IN IF Len(c) = 1 /\ IsValueTok(c[1])
       THEN [ok |-> TRUE, isArray |-> FALSE, items |-> <<ValueOf(c[1])>>]
       ELSE IF Len(c) >= 2 /\ c[1].t = "[" /\ c[Len(c)].t = "]" /\ listed
            THEN [ok |-> TRUE, isArray |-> TRUE,
                  items |-> [k \in 1..((Len(inner) + 1) \div 2) |->
                                ValueOf(inner[2 * k - 1])]]
            ELSE [ok |-> FALSE, isArray |-> FALSE, items |-> <<>>]

\* what one parsed text adds to the list: the elements of an array, an
\* object itself, nothing for any other value
Candidates(parsed) ==
    IF parsed.isArray THEN parsed.items
    ELSE IF parsed.items[1].kind = "object" THEN parsed.items
    ELSE <<>>

\* the loop over the blocks leaving at the first block that fails to parse
BlockSpansAbort(matches) ==
    LET Fails(m) == ~JSONparse(m).ok
    IN IF Find(matches, Fails) # <<>> THEN <<>>
       ELSE Concat([i \in DOMAIN matches |-> Candidates(JSONparse(matches[i]))])

\* the loop over the blocks: a block that fails to parse is skipped
BlockSpans(matches) ==
    Concat([i \in DOMAIN matches |->
                IF JSONparse(matches[i]).ok
                THEN Candidates(JSONparse(matches[i])) ELSE <<>>])

\* extractSpansFromResponse without the branch for a text without blocks
extractSpansFromResponseBlocksOnly(response) ==
    [raised |-> FALSE, wholeParsed |-> FALSE,
     spans |-> BlockSpans(matchAll(response))]

\* extractSpansFromResponse(response): raised tells whether the call threw,
\* wholeParsed whether it called JSON.parse(response)
extractSpansFromResponse(response) ==
    LET matches == matchAll(response)
        whole == JSONparse(response)
    IN [raised |-> FALSE,
        wholeParsed |-> matches = <<>>,
        spans |-> IF matches = <<>>
                  THEN IF ~whole.ok THEN <<>>
                       ELSE IF whole.isArray THEN whole.items
                       ELSE IF whole.items[1].kind = "object" THEN whole.items
                       ELSE BlockSpans(matches)
                  ELSE BlockSpans(matches)]

\* the JSON texts a reply carries: an object, a number, arrays of objects and
\* numbers, and a text cut off before its closing bracket
JsonTexts ==
    [object |-> <<Tok("obj", 1)>>,
     number |-> <<Tok("num", 5)>>,
     empty |-> <<Tok("[", 0), Tok("]", 0)>>,
     pair |-> <<Tok("[", 0), Tok("obj", 1), Tok(",", 0), Tok("obj", 2), Tok("]", 0)>>,
     mixed |-> <<Tok("[", 0), Tok("num", 5), Tok(",", 0), Tok("obj", 2), Tok("]", 0)>>,
     cut |-> <<Tok("[", 0), Tok("obj", 1), Tok(",", 0)>>]

\* the parts of a reply: prose, a fenced block without tag, a json-tagged
\* fenced block around a JSON text, a JSON text outside any fence
Parts ==
    {[part |-> "prose", text |-> "object"], [part |-> "plain", text |-> "object"]}
    \cup {[part |-> "json", text |-> x] : x \in DOMAIN JsonTexts}
    \cup {[part |-> "raw", text |-> x] : x \in {"object", "pair", "number", "cut"}}

Documents == UNION {[1..n -> Parts] : n \in 1..MaxParts}

\* the text of a part
RenderPart(p) ==
    CASE p.part = "prose" -> <<Prose>>
      [] p.part = "plain" -> <<Fence, Prose, Fence>>
      [] p.part = "json" -> <<FenceJson, Space>> \o JsonTexts[p.text] \o <<Space, Fence>>
      [] OTHER -> JsonTexts[p.text]

Render(doc) == Concat([i \in DOMAIN doc |-> RenderPart(doc[i]) \o <<Space>>])

ExtractIdle(doc) ==
    [Op("response", 0, 0, TRUE, 0, NoReport) EXCEPT
        !.report = [document |-> doc, response |-> Render(doc),
                    raised |-> FALSE, wholeParsed |-> FALSE, spans |-> <<>>]]

\* the reply of the model has arrived
InitExtract ==
    /\ spans = <<>>
    /\ contracts = <<>>
    /\ identity = <<>>
    /\ users = <<>>
    /\ credentials = <<>>
    /\ session = <<>>
    /\ settings = <<>>
    /\ generatedSpans = <<>>
    /\ inflight = <<>>
    /\ \E doc \in Documents : lastOp = ExtractIdle(doc)

\* handleSubmit hands the reply to extractSpansFromResponse
ExtractSpansFromResponse ==
    /\ lastOp.op = "response"
    /\ LET r == extractSpansFromResponse(lastOp.report.response)
       IN lastOp' = [lastOp EXCEPT !.op = "extractSpansFromResponse",
                                   !.report.raised = r.raised,
                                   !.report.wholeParsed = r.wholeParsed,
                                   !.report.spans = r.spans]
    /\ UNCHANGED <<spans, contracts, identity, account, flows>>

NextExtract == ExtractSpansFromResponse

SpecExtract == InitExtract /\ [][NextExtract]_vars

(***************************************************************************)
(* Export (database.ts).  The text of a blob is a sequence of tokens; the  *)
(* text of an object is one object-literal token that carries the entries  *)
(* JSON.stringify writes for it.                                           *)
(***************************************************************************)
\* the entries JSON.stringify writes for key k of a span: as FieldText, but
\* with the stored hash and the signature
SpanText(span, k) ==
    CASE k = "id" -> << <<"id", span.id>> >>
      [] k = "trace_id" -> << <<"trace_id", span.trace_id>> >>
      [] k = "this" ->
            << <<"this.hash", span.this.hash>>,
               <<"this.version", span.this.version>> >>
      [] k = "confirmed_by" ->
            IF span.confirmed_by = <<>> THEN <<>>
            ELSE << <<"confirmed_by.signature", span.confirmed_by[1].signature>>,
                    <<"confirmed_by.domain", span.confirmed_by[1].domain>>,
                    <<"confirmed_by.timestamp", span.confirmed_by[1].timestamp>>,
                    <<"confirmed_by.signer_id", span.confirmed_by[1].signer_id>> >>
      [] OTHER -> FieldText(span, k)

\* JSON.stringify(span)
JSONstringify(span) ==
    Tok("obj", Concat([i \in DOMAIN span.keys |-> SpanText(span, span.keys[i])]))

\* obj[key] of a parsed object; <<>> when the object has no such key
Get(obj, key) ==
    LET Named(e) == e[1] = key
        hit == Find(obj.v, Named)
    IN IF hit = <<>> THEN <<>> ELSE <<hit[1][2]>>

\* db.getAll('spans')
getAllSpans(store) ==
    LET keys == SetToSeq(DOMAIN store)
    IN [i \in DOMAIN keys |-> store[keys[i]]]

\* the texts of the three formats
NdjsonText(all) ==
    Concat([i \in DOMAIN all |-> <<JSONstringify(all[i]), Tok("nl", 0)>>])

JsonText(all) ==
    <<Tok("[", 0)>>
    \o Concat([i \in DOMAIN all |->
                  (IF i = 1 THEN <<>> ELSE <<Tok(",", 0)>>) \o <<JSONstringify(all[i])>>])
    \o <<Tok("]", 0)>>

CsvRow(cells) ==
    Concat([i \in DOMAIN cells |->
               (IF i = 1 THEN <<>> ELSE <<Tok(",", 0)>>) \o <<Tok("cell", cells[i])>>])

CsvText(all) ==
    CsvRow(<<"id", "trace_id", "type", "entity", "started_at", "hash", "signature">>)
    \o Concat([i \in DOMAIN all |->
                  <<Tok("nl", 0)>>
                  \o CsvRow(<<all[i].id, all[i].trace_id, all[i].type, all[i].entity,
                              all[i].started_at, all[i].this.hash,
                              IF HasSignature(all[i])
                              THEN all[i].confirmed_by[1].signature ELSE "">>)])

\* exportLedger with the json case writing one object per line
exportLedgerLines(store, format) ==
    LET all == getAllSpans(store)
    IN CASE format = "ndjson" -> [type |-> "application/x-ndjson", text |-> NdjsonText(all)]
         [] format = "json" -> [type |-> "application/json", text |-> NdjsonText(all)]
         [] OTHER -> [type |-> "text/csv", text |-> CsvText(all)]

\* exportLedger(format): the blob
exportLedger(store, format) ==
    LET all == getAllSpans(store)
    IN CASE format = "ndjson" -> [type |-> "application/x-ndjson", text |-> NdjsonText(all)]
         [] format = "json" -> [type |-> "application/json", text |-> JsonText(all)]
         [] OTHER -> [type |-> "text/csv", text |-> CsvText(all)]

Formats == {"ndjson", "json", "csv"}

ExportLedger(format) ==
    /\ lastOp' = [Op("exportLedger", 0, 0, TRUE, 0, NoReport) EXCEPT
                     !.report = [format |-> format,
                                 blob |-> exportLedger(spans, format)]]
    /\ UNCHANGED <<spans, contracts, identity, account, flows>>

\* the spans of the ledgers that are exported: with and without a parent
ExportInputs == {span \in VerifyInputs : span.trace_id \in LedgerTraces}

NextExport ==
    \/ \E span \in ExportInputs, now \in AppendTimes : AppendToLedger(span, now)
    \/ SaveIdentity(1)
    \/ \E format \in Formats : ExportLedger(format)

SpecExport == Init /\ [][NextExport]_vars

(***************************************************************************)
(* Onboarding (Onboarding.tsx): the account stores.                         *)
(***************************************************************************)
\* an API key: the prefix detectProvider looks at, and the secret part
ApiKey(prefix, secret) == [prefix |-> prefix, secret |-> secret]

BlankKey == ApiKey("", 0)

ApiKeys == {ApiKey("sk-ant-", 1), ApiKey("sk-", 2)}

detectProvider(apiKey) ==
    IF apiKey.prefix = "sk-ant-" THEN "anthropic"
    ELSE IF apiKey.prefix \in {"sk-proj-", "sk-"} THEN "openai"
    ELSE IF apiKey.prefix \in {"http://", "https://"} THEN "ollama"
    ELSE "anthropic"

DEFAULT_MODELS ==
    [anthropic |-> "claude-sonnet-4-20250514", openai |-> "gpt-4-turbo-preview",
     ollama |-> "llama2"]

\* the random salt and IV of one encryption
Nonces == {1, 2}

\* encryptApiKey: salt, IV and the AES-GCM ciphertext of the key under the
\* key derived from the user id (ideal encryption: the ciphertext names what
\* it hides and for whom)
encryptApiKey(apiKey, userId, nonce) ==
    [salt |-> nonce, iv |-> nonce,
     ciphertext |-> [under |-> userId, of |-> apiKey]]

\* the trace of the registration span of a user
OnboardingTrace(userId) == 0 - userId

\* the body of a registration span (the name and the user id it carries are
\* left out)
RegisterBody ==
    [action |-> "register_user",
     input |-> [title |-> "", description |-> "", parties |-> <<>>],
     metadata |-> <<>>]

createUserRegistrationSpan(id, userId, now) ==
    MkSpan(id, OnboardingTrace(userId), 0, "user.registered", "user",
           RegisterBody, now, now, EmptyHash, <<>>)

\* handleApiKeySubmit with the key typed in; valid is the answer of
\* testApiKey, userId the id made up for the user, nonce the random bytes of
\* the encryption and now the reading of the clock.  The registration span
\* gets a fresh id.
HandleApiKeySubmit(apiKey, valid, userId, nonce, now) ==
    IF apiKey = BlankKey \/ ~valid
    THEN /\ lastOp' = Op("handleApiKeySubmit", 0, 0, FALSE, 0, NoReport)
         /\ UNCHANGED <<spans, contracts, identity, account, flows>>
    ELSE /\ SpanIds \ DOMAIN spans # {}
         /\ LET provider == detectProvider(apiKey)
                ident == <<[id |-> "self", user_id |-> userId,
                            public_key |-> PublicKey(userId),
                            private_key_handle |-> PrivateKey(userId)]>>
                id == MinOf(SpanIds \ DOMAIN spans)
                span == PreparedSpan(createUserRegistrationSpan(id, userId, now),
                                     ident, now)
                put(store, record) ==
                    [u \in DOMAIN store \cup {userId} |->
                        IF u = userId THEN record ELSE store[u]]
            IN /\ users' = put(users, [id |-> userId, name |-> "Jo",
                                       created_at |-> now])
               /\ credentials' =
                     put(credentials,
                         [user_id |-> userId,
                          encrypted_key |-> encryptApiKey(apiKey, userId, nonce),
                          provider |-> provider,
                          model |-> DEFAULT_MODELS[provider],
                          created_at |-> now])
               /\ identity' = ident
               /\ session' =
                     put(session,
                         [user_id |-> userId, started_at |-> now,
                          last_activity |-> now, api_key |-> <<apiKey>>,
                          provider |-> provider,
                          model |-> DEFAULT_MODELS[provider]])
               /\ spans' = appendSpan(spans, span).spans
               /\ lastOp' = Op("handleApiKeySubmit", id, span.trace_id, TRUE, 0,
                               NoReport)
               /\ UNCHANGED <<contracts, settings, flows>>

ClearSession(userId) ==
    /\ session' = [u \in DOMAIN session \ {userId} |-> session[u]]
    /\ lastOp' = Op("clearSession", 0, 0, TRUE, 0, NoReport)
    /\ UNCHANGED <<spans, contracts, identity, users, credentials, settings, flows>>

SettingKeys == {"theme"}
SettingValues == {"dark", "light"}

SaveSetting(key, value) ==
    /\ settings' = [k \in DOMAIN settings \cup {key} |->
                       IF k = key THEN value ELSE settings[k]]
    /\ lastOp' = Op("saveSetting", 0, 0, TRUE, 0, NoReport)
    /\ UNCHANGED <<spans, contracts, identity, users, credentials, session, flows>>

NextOnboard ==
    \/ \E apiKey \in ApiKeys \cup {BlankKey}, valid \in BOOLEAN, userId \in UserIds,
          nonce \in Nonces, now \in AppendTimes :
          HandleApiKeySubmit(apiKey, valid, userId, nonce, now)
    \/ \E userId \in UserIds : ClearSession(userId)
    \/ \E key \in SettingKeys, value \in SettingValues : SaveSetting(key, value)
    \/ ClearAllData

SpecOnboard == Init /\ [][NextOnboard]_vars

(***************************************************************************)
(* Hashing and signing of single spans (crypto.ts).                        *)
(***************************************************************************)
\* the spans that are hashed: those of the contract flows and of the
\* verification scenarios, before appendToLedger has seen them
HashInputs == LedgerInputs \cup VerifyInputs

\* the orders in which the keys of a span may have been written instead: two
\* neighbours swapped, or all of them backwards
Reorderings(keys) ==
    {[i \in DOMAIN keys |->
         IF i = k THEN keys[k + 1] ELSE IF i = k + 1 THEN keys[k] ELSE keys[i]] :
        k \in 1..(Len(keys) - 1)}
    \cup {[i \in DOMAIN keys |-> keys[Len(keys) + 1 - i]]}

\* the same fields and values as span, written in another order (a span read
\* from the answer of the model has the key order of that answer)
Twins(span) == {[span EXCEPT !.keys = ks] : ks \in Reorderings(span.keys)}

HashIdle(span, twin) ==
    [Op("span", span.id, span.trace_id, TRUE, 0, NoReport) EXCEPT
        !.report = [span |-> span, twin |-> twin]]

\* two span objects with the same fields are at hand
InitHash ==
    /\ spans = <<>>
    /\ contracts = <<>>
    /\ identity = <<>>
    /\ users = <<>>
    /\ credentials = <<>>
    /\ session = <<>>
    /\ settings = <<>>
    /\ generatedSpans = <<>>
    /\ inflight = <<>>
    /\ \E span \in HashInputs : \E twin \in Twins(span) : lastOp = HashIdle(span, twin)

\* calculateSpanHash is called on the span, on its twin and on the span again
CalculateSpanHash ==
    /\ lastOp.op = "span"
    /\ lastOp' = [lastOp EXCEPT
                     !.op = "calculateSpanHash",
                     !.report = [span |-> lastOp.report.span,
                                 twin |-> lastOp.report.twin,
                                 digest |-> calculateSpanHash(lastOp.report.span),
                                 digestTwin |-> calculateSpanHash(lastOp.report.twin),
                                 digestAgain |-> calculateSpanHash(lastOp.report.span)]]
    /\ UNCHANGED <<spans, contracts, identity, account, flows>>

NextHash == CalculateSpanHash

SpecHash == InitHash /\ [][NextHash]_vars

\* the spans that are signed: with the hash still empty or already filled in
SignInputs == HashInputs \cup {WithHash(span) : span \in HashInputs}

\* an unsigned span is at hand
InitSign ==
    /\ spans = <<>>
    /\ contracts = <<>>
    /\ identity = <<>>
    /\ users = <<>>
    /\ credentials = <<>>
    /\ session = <<>>
    /\ settings = <<>>
    /\ generatedSpans = <<>>
    /\ inflight = <<>>
    /\ \E span \in SignInputs :
          lastOp = [Op("span", span.id, span.trace_id, TRUE, 0, NoReport) EXCEPT
                       !.report = [span |-> span, signer |-> 0, verified |-> FALSE,
                                   raised |-> FALSE]]

\* signSpan(span, privateKey) with the key pair generated for userId (it
\* fills in an empty hash), the confirmation is attached to the span, and
\* verifySpan(span, publicKey) is called
SignSpan(userId, now) ==
    /\ lastOp.op = "span"
    /\ LET ident == <<[id |-> "self", user_id |-> userId,
                       public_key |-> PublicKey(userId),
                       private_key_handle |-> PrivateKey(userId)]>>
           signed == PreparedSpan(lastOp.report.span, ident, now)
       IN lastOp' = [lastOp EXCEPT
                        !.op = "signSpan",
                        !.report = [span |-> signed, signer |-> userId,
                                    verified |-> verifySpan(signed, PublicKey(userId)),
                                    raised |-> FALSE]]
    /\ UNCHANGED <<spans, contracts, identity, account, flows>>

HashedFields == {"trace_id", "type", "started_at"}

\* the span with another value in one field
Changed(span, field) ==
    CASE field = "trace_id" -> [span EXCEPT !.trace_id = @ + 1]
      [] field = "type" -> [span EXCEPT !.type = "contract.changed"]
      [] OTHER -> [span EXCEPT !.started_at = @ + 1]

\* a field of the signed span is changed and verifySpan is called again
ChangeField(field) ==
    /\ lastOp.op = "signSpan"
    /\ LET changed == Changed(lastOp.report.span, field)
       IN lastOp' = [lastOp EXCEPT
                        !.op = "changeField",
                        !.report = [span |-> changed, signer |-> lastOp.report.signer,
                                    verified |-> verifySpan(changed,
                                                     PublicKey(lastOp.report.signer)),
                                    raised |-> FALSE]]
    /\ UNCHANGED <<spans, contracts, identity, account, flows>>

NextSign ==
    \/ \E userId \in UserIds, now \in Times : SignSpan(userId, now)
    \/ \E field \in HashedFields : ChangeField(field)

SpecSign == InitSign /\ [][NextSign]_vars

(***************************************************************************)
(* The projection: contract flows over two traces, with spans that started *)
(* at different times and a clock that has moved on since.                 *)
(***************************************************************************)
\* type, trace and start time of the spans: creation spans in both traces and
\* of both start times, closing spans in trace 1
ProjectKinds ==
    {<<"contract.created", 1, 1>>, <<"contract.created", 1, 2>>,
     <<"contract.created", 2, 1>>,
     <<"contract.completed", 1, 1>>, <<"contract.cancelled", 1, 1>>}

ProjectInputs ==
    {MkSpan(id, k[2], 0, k[1], "minicontrato", PartiesBody, k[3],
            IF k[1] = "contract.created" THEN 0 ELSE 2, EmptyHash, <<>>) :
        id \in SpanIds, k \in ProjectKinds}

\* the readings of the clock once the spans have been made
ProjectTimes == {3, 4}

\* the reading of the clock during an appendToLedger call
ProjectAppendTimes == {3}

\* the traces updateContractFromSpans is called for: one never has a span
ProjectTraces == {1, 2, 3}

NextProject ==
    \/ \E span \in ProjectInputs, now \in ProjectAppendTimes :
          AppendToLedger(span, now)
    \/ \E t \in ProjectTraces, now \in ProjectTimes : UpdateContractFromSpans(t, now)

SpecProject == Init /\ [][NextProject]_vars

(***************************************************************************)
(* appendToLedger on spans that come with a hash or a confirmation (the    *)
(* contract page passes on what the model's reply holds).                  *)
(***************************************************************************)
NumAppendIds == 2

AppendIds == 1..NumAppendIds

\* a hash string that came with the span: not a digest of the span
SuppliedHash == [algo |-> "sha256", hex |-> <<>>]

\* a confirmed_by block that came with the span, by a signer that is not the
\* local identity
SuppliedConfirmation ==
    [signature |-> sign(SuppliedHash, PrivateKey(2)), domain |-> "other.example",
     timestamp |-> 1, signer_id |-> 2]

SuppliedInputs ==
    {MkSpan(id, t, 0, "contract.created", "minicontrato", PartiesBody, 1, 0, hash, cb) :
        id \in AppendIds, t \in LedgerTraces, hash \in {EmptyHash, SuppliedHash},
        cb \in {<<>>, <<SuppliedConfirmation>>}}

NextAppend ==
    \/ \E span \in SuppliedInputs, now \in Times : AppendToLedger(span, now)
    \/ SaveIdentity(1)

SpecAppend == Init /\ [][NextAppend]_vars

(***************************************************************************)
(* The contract page (CreateContract.tsx): handleSubmit takes the spans    *)
(* out of the model's reply, saveContract appends them.                    *)
(***************************************************************************)
NumReplyIds == 2

ReplyIds == 1..NumReplyIds

\* the object without one of its keys: the field is undefined
Without(obj, key) ==
    LET Other(k) == k # key
        cut == [obj EXCEPT !.keys = SelectSeq(obj.keys, Other)]
    IN IF key = "body"
       THEN [cut EXCEPT !.body = [action |-> "",
                                  input |-> [title |-> "", description |-> "",
                                             parties |-> <<>>],
                                  metadata |-> <<>>]]
       ELSE [cut EXCEPT !.this = [hash |-> EmptyHash, version |-> ""]]

\* isValidSpan(obj): the keys are there (a value that is there is a string
\* where a string is asked for, an object where an object is asked for)
isValidSpan(obj) ==
    /\ {"id", "trace_id", "type", "entity", "body", "this"} \subseteq Range(obj.keys)
    /\ obj.body.action # ""
    /\ obj.this.version # ""

\* the objects a reply holds: a creation span in the format the prompt asks
\* for, the same without body, the same without this
ReplyForms == {"span", "no body", "no this"}

ReplyObject(id, form) ==
    LET span == MkSpan(id, 1, 0, "contract.created", "minicontrato", PartiesBody,
                       1, 0, EmptyHash, <<>>)
    IN CASE form = "span" -> span
         [] form = "no body" -> Without(span, "body")
         [] OTHER -> Without(span, "this")

\* the text of a reply: prose, then a json-tagged block with an array
ReplyText(objs) ==
    <<Prose, Space, FenceJson, Space, Tok("[", 0)>>
    \o Concat([i \in DOMAIN objs |->
                  (IF i = 1 THEN <<>> ELSE <<Tok(",", 0)>>) \o <<Tok("obj", objs[i])>>])
    \o <<Tok("]", 0), Space, Fence>>

\* the replies: objects for some of the ids, in the order of the ids
Replies ==
    {ReplyText([i \in DOMAIN SetToSeq(S) |-> ReplyObject(SetToSeq(S)[i], f[SetToSeq(S)[i]])]) :
        S \in (SUBSET ReplyIds) \ {{}}, f \in [ReplyIds -> ReplyForms]}

\* handleSubmit once callLLM has returned response.  Reading span.this.hash
\* of an object without this is a TypeError: the catch block reports it and
\* the generated spans stay as they were.
HandleSubmit(response) ==
    LET extracted == extractSpansFromResponse(response).spans
        objs == [i \in DOMAIN extracted |-> extracted[i].v]
        throws == \E i \in DOMAIN objs : "this" \notin Range(objs[i].keys)
    IN /\ generatedSpans' = IF objs = <<>> \/ throws THEN generatedSpans
                            ELSE [i \in DOMAIN objs |-> WithHash(objs[i])]
       /\ lastOp' = Op("handleSubmit", 0, 0, ~throws, 0, NoReport)
       /\ UNCHANGED <<spans, contracts, identity, account, inflight>>

RECURSIVE appendAll(_, _, _, _, _, _)
RECURSIVE appendNext(_, _, _, _, _)
\* the loop of saveContract from the i-th span on, over the stores so far and
\* the objects as the calls have left them; failedAt is the index of the
\* appendToLedger call that threw, 0 when none did
appendAll(gs, i, store, cs, ident, now) ==
    IF i > Len(gs)
    THEN [failedAt |-> 0, spans |-> store, contracts |-> cs, objects |-> gs]
    ELSE appendNext(gs, i, appendToLedger(store, cs, ident, gs[i], now), ident, now)

\* the loop after its i-th appendToLedger call, which gave r
appendNext(gs, i, r, ident, now) ==
    IF r.ok
    THEN appendAll([gs EXCEPT ![i] = r.span], i + 1, r.spans, r.contracts, ident, now)
    ELSE [failedAt |-> i, spans |-> r.spans, contracts |-> r.contracts,
          objects |-> [gs EXCEPT ![i] = r.span]]

\* the end of saveContract, r being what the loop gave: it calls
\* updateContractFromSpans for the trace of the first span and leaves the
\* page, which drops its state; an exception ends it in the catch block, on
\* the page
Saved(r, contractId, ok, now) ==
    /\ spans' = r.spans
    /\ contracts' = IF ok
                    THEN updateContractFromSpans(r.spans, r.contracts, contractId, now)
                    ELSE r.contracts
    /\ generatedSpans' = IF ok THEN <<>> ELSE r.objects
    /\ lastOp' = [Op("saveContract", 0, contractId, ok,
                     IF ok THEN contractId ELSE 0, NoReport)
                     EXCEPT !.at = now,
                            !.report = [failedAt |-> r.failedAt,
                                        generated |-> generatedSpans]]
    /\ UNCHANGED <<identity, account, inflight>>

SaveEnds(r, contractId, now) ==
    Saved(r, contractId,
          r.failedAt = 0 /\ ~updateContractThrows(r.spans, r.contracts, contractId),
          now)

\* saveContract
SaveContract(now) ==
    /\ generatedSpans # <<>>
    /\ SaveEnds(appendAll(generatedSpans, 1, spans, contracts, identity, now),
                generatedSpans[1].trace_id, now)

NextCreate ==
    \/ \E response \in Replies : HandleSubmit(response)
    \/ \E now \in AppendTimes : SaveContract(now)

SpecCreate == Init /\ [][NextCreate]_vars

(***************************************************************************)
(* appendToLedger calls side by side.  Each await of a store operation is  *)
(* a point where another call may run; the store operations themselves are *)
(* atomic.                                                                 *)
(***************************************************************************)
NumCalls == 2

Calls == 1..NumCalls

\* the spans of the calls: call c appends the span with id c, a creation span
\* or an obligation span, to trace 1
RaceKinds == {<<"contract.created", 0>>, <<"obligation.registered", 1>>}

RaceInputs(c) ==
    {MkSpan(c, t, k[2], k[1], "minicontrato", PartiesBody, 1, 0, EmptyHash, <<>>) :
        t \in LedgerTraces, k \in RaceKinds}

At(c, pc) == c \in DOMAIN inflight /\ inflight[c].pc = pc

Goto(c, pc) == [inflight EXCEPT ![c].pc = pc]

RaceOp(name, c) == Op(name, c, inflight[c].span.trace_id, TRUE, 0, NoReport)

\* appendToLedger(span) is called: steps 1 and 2 (hash, identity, signature)
\* touch no store; the call then waits for appendSpan
CallAppendToLedger(c, span, now) ==
    /\ c \notin DOMAIN inflight
    /\ inflight' = inflight @@ (c :> [pc |-> "appendSpan",
                                      span |-> PreparedSpan(span, identity, now),
                                      ss |-> <<>>, contract |-> <<>>])
    /\ lastOp' = Op("appendToLedger called", c, span.trace_id, TRUE, 0, NoReport)
    /\ UNCHANGED <<spans, contracts, identity, account, generatedSpans>>

\* step 3: await appendSpan(span)
AwaitAppendSpan(c) ==
    /\ At(c, "appendSpan")
    /\ LET r == appendSpan(spans, inflight[c].span)
       IN /\ spans' = r.spans
          /\ inflight' = Goto(c, IF ~r.ok THEN "failed"
                                 ELSE IF inflight[c].span.entity = "minicontrato"
                                      THEN "getSpansByTrace" ELSE "done")
    /\ lastOp' = RaceOp("appendSpan", c)
    /\ UNCHANGED <<contracts, identity, account, generatedSpans>>

\* updateContractFromSpans: await getSpansByTrace(traceId)
AwaitGetSpansByTrace(c) ==
    /\ At(c, "getSpansByTrace")
    /\ LET ss == getSpansByTrace(spans, inflight[c].span.trace_id)
       IN inflight' = [inflight EXCEPT
                          ![c].ss = ss,
                          ![c].pc = IF Find(ss, IsCreated) = <<>> THEN "done"
                                    ELSE "getContract"]
    /\ lastOp' = RaceOp("getSpansByTrace", c)
    /\ UNCHANGED <<spans, contracts, identity, account, generatedSpans>>

\* updateContractFromSpans: await getContract(traceId), then the record is
\* built or updated in memory
AwaitGetContract(c, now) ==
    /\ At(c, "getContract")
    /\ LET t == inflight[c].span.trace_id
           ss == inflight[c].ss
       IN inflight' = [inflight EXCEPT
                          ![c].contract =
                              IF t \notin DOMAIN contracts
                              THEN <<NewContract(t, Find(ss, IsCreated)[1], ss, now)>>
                              ELSE <<UpdatedContract(contracts[t], ss, now)>>,
                          ![c].pc = "saveContract"]
    /\ lastOp' = RaceOp("getContract", c)
    /\ UNCHANGED <<spans, contracts, identity, account, generatedSpans>>

\* updateContractFromSpans: await saveContract(contract), a db.put
AwaitSaveContract(c) ==
    /\ At(c, "saveContract")
    /\ LET record == inflight[c].contract[1]
       IN contracts' = [t \in DOMAIN contracts \cup {record.id} |->
                           IF t = record.id THEN record ELSE contracts[t]]
    /\ inflight' = Goto(c, "done")
    /\ lastOp' = RaceOp("saveContract (store)", c)
    /\ UNCHANGED <<spans, identity, account, generatedSpans>>

NextRace ==
    \/ \E c \in Calls : \E span \in RaceInputs(c), now \in AppendTimes :
          CallAppendToLedger(c, span, now)
    \/ \E c \in Calls : AwaitAppendSpan(c)
    \/ \E c \in Calls : AwaitGetSpansByTrace(c)
    \/ \E c \in Calls, now \in AppendTimes : AwaitGetContract(c, now)
    \/ \E c \in Calls : AwaitSaveContract(c)

SpecRace == Init /\ [][NextRace]_vars

(***************************************************************************)
(* Titles: creation spans with and without a title and parties.            *)
(***************************************************************************)
NumTitleIds == 2

TitleIds == 1..NumTitleIds

\* body.input of a creation span: title and parties, each present or not; the
\* parties are none, one or two
TitleBodies ==
    {[PartiesBody EXCEPT !.input.title = ti, !.input.parties = pa] :
        ti \in {"", "Venda"},
        pa \in {<<>>, << <<>> >>, << <<"Jo">> >>, << <<"Jo", "Ana">> >>}}

TitleInputs ==
    {MkSpan(id, t, 0, "contract.created", "minicontrato", body, 1, 0, EmptyHash, <<>>) :
        id \in TitleIds, t \in LedgerTraces, body \in TitleBodies}

NextTitle ==
    \/ \E span \in TitleInputs, now \in AppendTimes : AppendToLedger(span, now)
    \/ \E t \in LedgerTraces, now \in AppendTimes : UpdateContractFromSpans(t, now)
    \/ \E t \in LedgerTraces : DeleteContract(t)

SpecTitle == Init /\ [][NextTitle]_vars

(***************************************************************************)
(* Properties.                                                             *)
(***************************************************************************)
StoredIn(t) == {id \in DOMAIN spans : spans[id].trace_id = t}
StoredInNext(t) == {id \in DOMAIN spans' : spans'[id].trace_id = t}
TypesIn(t) == {spans[id].type : id \in StoredIn(t)}

\* every span stored before the step is stored, unchanged, after it
SpansKept == \A id \in DOMAIN spans : id \in DOMAIN spans' /\ spans'[id] = spans[id]

\* C1: appending a span whose id is already stored fails, and the spans store
\* and the contracts store are left as they were.
C1_DuplicateAppendFails ==
    [][(lastOp'.op = "appendToLedger" /\ lastOp'.id \in DOMAIN spans)
          => (~lastOp'.ok /\ spans' = spans /\ contracts' = contracts)]_vars

C1_Witness ==
    /\ lastOp.op = "appendToLedger"
    /\ ~lastOp.ok
    /\ lastOp.id \in DOMAIN spans
    /\ contracts # <<>>

\* C2: every stored span reproduces its stored hash when calculateSpanHash is
\* run over it again.
C2_StoredHashReproduces ==
    \A id \in DOMAIN spans : calculateSpanHash(spans[id]) = spans[id].this.hash

\* C3 (as stated): no operation at all removes or changes a stored span.
C3_NoOperationRemovesSpans == [][SpansKept]_vars

\* C3 (amended): every operation other than clearAllData keeps every stored
\* span, with the field values it had.
C3_OnlyClearAllDataRemovesSpans ==
    [][lastOp'.op # "clearAllData" => SpansKept]_vars

C3_Witness ==
    /\ lastOp.op = "appendToLedger"
    /\ lastOp.ok
    /\ Cardinality(DOMAIN spans) >= 2

Examined == {id \in DOMAIN spans : spans[id].trace_id \in DOMAIN contracts}

Reported(id, kind) ==
    \E i \in DOMAIN lastOp.report.errors :
        lastOp.report.errors[i] = [span_id |-> id, error |-> kind]

\* the signature of a stored span verifies, over the stored hash, under the
\* public key of the signer the span names
SignatureHolds(span) ==
    verify(span.this.hash, span.confirmed_by[1].signature,
           PublicKey(span.confirmed_by[1].signer_id))

\* C4: verifyLedger reports a signature error for a signed span exactly when
\* its signature does not verify, over the stored hash, under the key of the
\* span's own signer.
C4_SignatureErrorIffInvalid ==
    lastOp.op = "verifyLedger" =>
        \A id \in Examined :
            HasSignature(spans[id]) =>
                (Reported(id, InvalidSignature) <=> ~SignatureHolds(spans[id]))

HashErrorsReported ==
    {i \in DOMAIN lastOp.report.errors : lastOp.report.errors[i].error = HashMismatch}

\* the store as it was before the stored hashes were changed from outside
Untampered ==
    [id \in DOMAIN spans |->
        IF id \in Tampered
        THEN [spans[id] EXCEPT !.this.hash = [@ EXCEPT !.algo = "blake3"]]
        ELSE spans[id]]

\* C5: with the stored hash of exactly one span x changed from outside,
\* verifyLedger reports one hash mismatch, for x, and the total it had before.
C5_TamperReportedOnce ==
    (lastOp.op = "verifyLedger" /\ Cardinality(Tampered) = 1) =>
        /\ Cardinality(HashErrorsReported) = 1
        /\ \A id \in DOMAIN spans : Reported(id, HashMismatch) <=> id \in Tampered
        /\ lastOp.report.total = verifyLedger(Untampered, contracts, identity).total

\* the three checks of verifyLedger, stated for a stored span
HashCheckFails(id) == spans[id].this.hash # calculateSpanHash(spans[id])
SignatureCheckFails(id) ==
    /\ HasSignature(spans[id])
    /\ identity # <<>>
    /\ ~verifySpan(spans[id], identity[1].private_key_handle)
ParentCheckFails(id) ==
    /\ spans[id].parent_id # 0
    /\ spans[id].parent_id \notin StoredIn(spans[id].trace_id)

FailedChecks ==
    {[span_id |-> id, error |-> HashMismatch] : id \in {x \in Examined : HashCheckFails(x)}}
    \cup {[span_id |-> id, error |-> InvalidSignature] :
            id \in {x \in Examined : SignatureCheckFails(x)}}
    \cup {[span_id |-> id, error |-> ParentNotFound] :
            id \in {x \in Examined : ParentCheckFails(x)}}

StatusFor(t) ==
    IF "contract.cancelled" \in TypesIn(t) THEN "cancelled"
    ELSE IF "contract.completed" \in TypesIn(t) THEN "completed"
    ELSE "active"

\* C7: after updateContractFromSpans has run for a trace that holds a
\* contract.created span, the record has the status its spans call for, and a
\* cancelled record has the completed_at of a contract.cancelled span.
C7_StatusFollowsSpans ==
    \A t \in TraceIds :
        (lastOp.projected = t /\ "contract.created" \in TypesIn(t)) =>
            /\ t \in DOMAIN contracts
            /\ contracts[t].status = StatusFor(t)
            /\ contracts[t].status = "cancelled" =>
                  \E id \in StoredIn(t) :
                      /\ spans[id].type = "contract.cancelled"
                      /\ contracts[t].completed_at = spans[id].completed_at

\* the step is a successful appendToLedger of a minicontrato span of the
\* given type to trace t, whose stored spans had exactly the types before
AppendStep(t, type, before) ==
    /\ lastOp'.op = "appendToLedger"
    /\ lastOp'.ok
    /\ lastOp'.trace = t
    /\ spans'[lastOp'.id].type = type
    /\ spans'[lastOp'.id].entity = "minicontrato"
    /\ Cardinality(StoredIn(t)) = Cardinality(before)
    /\ TypesIn(t) = before
    /\ \A id \in StoredIn(t) : spans[id].entity = "minicontrato"
    /\ before # {} => t \in DOMAIN contracts

C8_Steps(completedAtOk(_, _)) ==
    \A t \in TraceIds :
        /\ AppendStep(t, "contract.created", {}) =>
              (t \in DOMAIN contracts' /\ contracts'[t].status = "active")
        /\ AppendStep(t, "contract.completed", {"contract.created"}) =>
              /\ contracts'[t].status = "completed"
              /\ completedAtOk(contracts'[t].completed_at, spans'[lastOp'.id])
        /\ AppendStep(t, "contract.cancelled",
                      {"contract.created", "contract.completed"}) =>
              contracts'[t].status = "cancelled"

CompletedAtPresent(at, span) == at # 0
CompletedAtOfSpan(at, span) == at = span.completed_at

\* C8 (as stated): created, completed, cancelled appended in this order give
\* active, then completed with a completed_at, then cancelled.
C8_CompletedAtAlwaysSet == [][C8_Steps(CompletedAtPresent)]_vars

\* C8 (amended): ... then completed with the completed_at of the
\* contract.completed span (none when that span has none), then cancelled.
C8_StatusSequence == [][C8_Steps(CompletedAtOfSpan)]_vars

C8_Witness ==
    \E t \in TraceIds :
        /\ lastOp.op = "appendToLedger" /\ lastOp.ok /\ lastOp.trace = t
        /\ spans[lastOp.id].type = "contract.cancelled"
        /\ Cardinality(StoredIn(t)) = 3
        /\ TypesIn(t) = {"contract.created", "contract.completed", "contract.cancelled"}
        /\ \A id \in StoredIn(t) : spans[id].entity = "minicontrato"
        /\ contracts[t].status = "cancelled"

\* C9: a second updateContractFromSpans for the same trace, right after the
\* first, leaves a record that differs from the first one in updated_at only.
C9_ProjectionIdempotent ==
    [][\A t \in TraceIds :
          (lastOp.projected = t /\ lastOp'.op = "updateContractFromSpans"
             /\ lastOp'.trace = t)
          => /\ (t \in DOMAIN contracts') <=> (t \in DOMAIN contracts)
             /\ t \in DOMAIN contracts =>
                   [contracts'[t] EXCEPT !.updated_at = 0]
                       = [contracts[t] EXCEPT !.updated_at = 0]]_vars

\* C10: after a successful appendToLedger every contract record lists exactly
\* the stored spans of its trace.
C10_RecordListsTraceSpans ==
    (lastOp.op = "appendToLedger" /\ lastOp.ok) =>
        \A t \in DOMAIN contracts : Range(contracts[t].spans) = StoredIn(t)

\* the last step stored a contract.created span of entity minicontrato
CreatedAppended ==
    /\ lastOp.op = "appendToLedger"
    /\ lastOp.ok
    /\ spans[lastOp.id].type = "contract.created"
    /\ spans[lastOp.id].entity = "minicontrato"

ClosingTypes == {"contract.completed", "contract.cancelled"}

Matches(s, filter) ==
    /\ filter.trace_id # 0 => s.trace_id = filter.trace_id
    /\ filter.type # "" => s.type = filter.type
    /\ filter.entity # "" => s.entity = filter.entity
    /\ filter.user_id # 0 =>
          (s.confirmed_by # <<>> /\ s.confirmed_by[1].signer_id = filter.user_id)
    /\ filter.from # 0 => s.started_at >= filter.from
    /\ filter.to # 0 => s.started_at <= filter.to

Matching(filter) == {id \in DOMAIN spans : Matches(spans[id], filter)}

\* C12: without a limit, querySpans returns exactly the stored spans that
\* satisfy every supplied filter field, each once.
C12_QueryReturnsMatching ==
    (lastOp.op = "querySpans" /\ lastOp.report.filter.limit = <<>>) =>
        LET result == lastOp.report.result
        IN /\ \A i \in DOMAIN result :
                 result[i].id \in DOMAIN spans /\ result[i] = spans[result[i].id]
           /\ {result[i].id : i \in DOMAIN result} = Matching(lastOp.report.filter)
           /\ Len(result) = Cardinality(Matching(lastOp.report.filter))

Min(a, b) == IF a < b THEN a ELSE b

\* C13: the result of querySpans is ordered by started_at descending, and with
\* a limit L >= 0 it is the first L elements of the result without the limit.
C13_QuerySortedAndLimited ==
    lastOp.op = "querySpans" =>
        LET result == lastOp.report.result
            filter == lastOp.report.filter
            unlimited == querySpans(spans, [filter EXCEPT !.limit = <<>>])
        IN /\ \A i, j \in DOMAIN result :
                 i < j => result[i].started_at >= result[j].started_at
           /\ filter.limit # <<>> =>
                 /\ Len(result) = Min(filter.limit[1], Len(unlimited))
                 /\ result = SubSeq(unlimited, 1, Len(result))

\* the json-tagged blocks of a document, in order
JsonBlocks(doc) ==
    LET IsJson(p) == p.part = "json"
    IN SelectSeq(doc, IsJson)

\* what the JSON text named x is to contribute
Contribution(x) ==
    CASE x = "object" -> <<[kind |-> "object", v |-> 1]>>
      [] x = "pair" -> <<[kind |-> "object", v |-> 1], [kind |-> "object", v |-> 2]>>
      [] x = "mixed" -> <<[kind |-> "number", v |-> 5], [kind |-> "object", v |-> 2]>>
      [] OTHER -> <<>>

\* C14: for a text with json-tagged fenced blocks, extractSpansFromResponse
\* returns, in block order, the object or the array elements of every block
\* that parses, nothing for a block that does not, and raises no error.
C14_ExtractSkipsBadBlocks ==
    (lastOp.op = "extractSpansFromResponse"
       /\ JsonBlocks(lastOp.report.document) # <<>>) =>
        LET blocks == JsonBlocks(lastOp.report.document)
        IN /\ ~lastOp.report.raised
           /\ lastOp.report.spans =
                 Concat([i \in DOMAIN blocks |-> Contribution(blocks[i].text)])

\* a block with a two-element array, then a block that does not parse
C14_Witness ==
    /\ lastOp.op = "extractSpansFromResponse"
    /\ \E i, j \in DOMAIN lastOp.report.document :
          /\ i < j
          /\ lastOp.report.document[i] = [part |-> "json", text |-> "pair"]
          /\ lastOp.report.document[j] = [part |-> "json", text |-> "cut"]
    /\ Len(lastOp.report.spans) = 2

\* the (id, hash) pairs of the objects of a parsed array
ParsedPairs(parsed) ==
    {<<Get(parsed.items[i], "id"), Get(parsed.items[i], "this.hash")>> :
        i \in DOMAIN parsed.items}

StoredPairs == {<< <<spans[id].id>>, <<spans[id].this.hash>> >> : id \in DOMAIN spans}

\* C15: the JSON array export, parsed again, holds exactly the (id, hash)
\* pairs of the stored spans.
C15_ExportRoundTrip ==
    (lastOp.op = "exportLedger" /\ lastOp.report.format = "json") =>
        LET parsed == JSONparse(lastOp.report.blob.text)
        IN /\ parsed.ok
           /\ parsed.isArray
           /\ ParsedPairs(parsed) = StoredPairs

\* an export of a ledger with a signed and an unsigned span
C15_Witness ==
    /\ lastOp.op = "exportLedger"
    /\ lastOp.report.format = "json"
    /\ Cardinality(DOMAIN spans) >= 2
    /\ \E a, b \in DOMAIN spans : HasSignature(spans[a]) /\ ~HasSignature(spans[b])

\* the export of the empty ledger
C15_WitnessEmpty ==
    /\ lastOp.op = "exportLedger"
    /\ lastOp.report.format = "json"
    /\ spans = <<>>

\* C16: no record of a persistent store holds the API key in the clear.  Of
\* the records of the stores only a session has a field for the key itself;
\* a credential holds the ciphertext encryptApiKey made.
C16_NoPlaintextKeyStored ==
    /\ \A u \in DOMAIN session : session[u].api_key = <<>>
    /\ \A u \in DOMAIN credentials :
          credentials[u].encrypted_key.ciphertext.under = u

\* C17: two spans with the same fields and values have the same digest
\* whatever the order their keys were written in, and a second call on the
\* same span gives the same digest.
C17_HashIgnoresKeyOrder ==
    lastOp.op = "calculateSpanHash" =>
        /\ lastOp.report.digestTwin = lastOp.report.digest
        /\ lastOp.report.digestAgain = lastOp.report.digest

\* C18: a span signed with signSpan and given the confirmation verifies under
\* the public key of the pair; with a hashed field changed afterwards
\* verifySpan returns false; neither call raises.
C18_SignVerifyRoundTrip ==
    /\ lastOp.op = "signSpan" => (lastOp.report.verified /\ ~lastOp.report.raised)
    /\ lastOp.op = "changeField" => (~lastOp.report.verified /\ ~lastOp.report.raised)

\* the stored spans whose trace holds a contract.created span
InCreatedTraces ==
    {id \in DOMAIN spans : "contract.created" \in TypesIn(spans[id].trace_id)}

\* C19: verifyLedger examines exactly the stored spans whose trace holds a
\* contract.created span, and total is their number.
C19_ExaminesCreatedTraces ==
    lastOp.op = "verifyLedger" =>
        /\ Examined = InCreatedTraces
        /\ lastOp.report.total = Cardinality(InCreatedTraces)

\* C20: verifyLedger examines every stored span, and total is the number of
\* spans in the store.
C20_ExaminesEverySpan ==
    lastOp.op = "verifyLedger" =>
        /\ Examined = DOMAIN spans
        /\ lastOp.report.total = Cardinality(DOMAIN spans)

Projects(t) == lastOp'.projected = t

\* C22: updateContractFromSpans on a trace without a contract.created span (a
\* trace without any span included) creates no record and leaves every record
\* of the contracts store as it was.
C22_NoCreationSpanNoChange ==
    [][\A t \in ProjectTraces :
          (Projects(t) /\ "contract.created" \notin {spans'[id].type : id \in StoredInNext(t)})
              => contracts' = contracts]_vars

\* a closing span was appended to a trace that has no creation span, while
\* another trace has its record
C22_Witness ==
    /\ lastOp.op = "appendToLedger"
    /\ lastOp.ok
    /\ lastOp.projected = 1
    /\ "contract.created" \notin TypesIn(1)
    /\ StoredIn(1) # {}
    /\ DOMAIN contracts = {2}

\* the start times of the stored creation spans of trace t after the step
CreationTimesNext(t) ==
    {spans'[id].started_at :
        id \in {x \in StoredInNext(t) : spans'[x].type = "contract.created"}}

\* C23: a record that is first written gets the started_at of a creation span
\* of its trace as created_at, no later projection changes created_at, and
\* every projection that writes the record sets updated_at to the time of the
\* projection.
C23_CreatedAtSetOnce ==
    [][\A t \in TraceIds :
          /\ (t \notin DOMAIN contracts /\ t \in DOMAIN contracts') =>
                contracts'[t].created_at \in CreationTimesNext(t)
          /\ (t \in DOMAIN contracts /\ t \in DOMAIN contracts') =>
                contracts'[t].created_at = contracts[t].created_at
          /\ (Projects(t) /\ t \in DOMAIN contracts') =>
                contracts'[t].updated_at = lastOp'.at]_vars

\* a record made from a creation span that started at 1 has been projected
\* again, at 4, after a creation span that started at 2 was stored
C23_Witness ==
    /\ lastOp.op = "updateContractFromSpans"
    /\ lastOp.at = 4
    /\ 1 \in DOMAIN contracts
    /\ contracts[1].created_at = 1
    /\ contracts[1].updated_at = 4
    /\ \E id \in StoredIn(1) :
          spans[id].type = "contract.created" /\ spans[id].started_at = 2

\* the names of at most two parties, joined by " e "
NamesText(names) ==
    IF names = <<>> THEN ""
    ELSE IF Len(names) = 1 THEN names[1]
    ELSE names[1] \o " e " \o names[2]

\* title is the title the claim gives for the creation span
TitleOf(span, title) ==
    IF span.body.input.title # "" THEN title = span.body.input.title
    ELSE IF span.body.input.parties # <<>>
         THEN title = "Contrato entre " \o NamesText(span.body.input.parties[1])
         ELSE /\ \E n \in 1..Len(IdText(span.id)) :
                    title = "Contrato " \o SubSeq(IdText(span.id), 1, n)
              /\ Len(title) <= Len("Contrato ") + 8

\* C24: the title of a record the projector has just written first is
\* input.title of a creation span of the trace when that is present, else
\* "Contrato entre " and the party names joined by " e " when input.parties is
\* present, else a text built from a prefix of the span's id.
C24_TitleFromCreationSpan ==
    [][\A t \in LedgerTraces :
          (t \notin DOMAIN contracts /\ t \in DOMAIN contracts') =>
              \E id \in StoredInNext(t) :
                  /\ spans'[id].type = "contract.created"
                  /\ TitleOf(spans'[id], contracts'[t].title)]_vars

\* the record of a trace whose only span has two parties and no title
C24_Witness ==
    /\ lastOp.op = "appendToLedger"
    /\ lastOp.ok
    /\ Cardinality(StoredIn(1)) = 1
    /\ 1 \in DOMAIN contracts
    /\ contracts[1].title = "Contrato entre Jo e Ana"

\* the record of a trace whose only span has no title and no parties, and an
\* id longer than eight characters
C24_WitnessFallback ==
    /\ lastOp.op = "appendToLedger"
    /\ lastOp.ok
    /\ StoredIn(1) = {2}
    /\ 1 \in DOMAIN contracts
    /\ contracts[1].title = "Contrato 018f3c2a"

\* block x of a document does not parse
Unparsable(x) == x = "cut"

\* C25: extractSpansFromResponse parses the whole text exactly when the text
\* has no json-tagged fenced block; then the result is the parsed object, or
\* the elements of the parsed array, or empty when the text is not the text
\* of an object or an array; with tagged blocks of which none parses the
\* result is empty.
C25_WholeTextFallback ==
    lastOp.op = "extractSpansFromResponse" =>
        LET doc == lastOp.report.document
            blocks == JsonBlocks(doc)
        IN /\ lastOp.report.wholeParsed <=> (blocks = <<>>)
           /\ blocks = <<>> =>
                 lastOp.report.spans =
                     IF Len(doc) = 1 /\ doc[1].part = "raw"
                     THEN Contribution(doc[1].text) ELSE <<>>
           /\ (blocks # <<>> /\ \A i \in DOMAIN blocks : Unparsable(blocks[i].text)) =>
                 lastOp.report.spans = <<>>

\* a reply that is the text of an array of two objects and nothing else
C25_Witness ==
    /\ lastOp.op = "extractSpansFromResponse"
    /\ lastOp.report.document = <<[part |-> "raw", text |-> "pair"]>>
    /\ lastOp.report.wholeParsed
    /\ Len(lastOp.report.spans) = 2

\* a reply whose only tagged block does not parse, next to the text of an object
C25_WitnessBlocks ==
    /\ lastOp.op = "extractSpansFromResponse"
    /\ lastOp.report.document =
          <<[part |-> "json", text |-> "cut"], [part |-> "raw", text |-> "object"]>>
    /\ ~lastOp.report.wholeParsed
    /\ lastOp.report.spans = <<>>

\* stored is what appendToLedger is to store for the caller's span, with the
\* identity ident and the clock at now
StoredAsSupplied(span, stored, ident, now) ==
    /\ [stored EXCEPT !.this.hash = EmptyHash, !.confirmed_by = <<>>, !.keys = <<>>]
          = [span EXCEPT !.this.hash = EmptyHash, !.confirmed_by = <<>>, !.keys = <<>>]
    /\ stored.this.hash = IF span.this.hash # EmptyHash THEN span.this.hash
                          ELSE calculateSpanHash(span)
    /\ stored.confirmed_by =
          IF span.confirmed_by # <<>> THEN span.confirmed_by
          ELSE IF ident = <<>> THEN <<>>
          ELSE <<[signature |-> sign(stored.this.hash, PrivateKey(ident[1].user_id)),
                  domain |-> "minicontratos.local", timestamp |-> now,
                  signer_id |-> ident[1].user_id]>>

\* C29: appendToLedger stores a hash that came with the span as it is, and
\* computes it only when it is empty; it stores a confirmed_by that came with
\* the span as it is, and signs only when there is a local identity and the
\* span has no confirmed_by.
C29_SuppliedHashAndConfirmationKept ==
    [][(lastOp'.op = "appendToLedger" /\ lastOp'.ok) =>
          StoredAsSupplied(lastOp'.report.span, spans'[lastOp'.id], identity,
                           lastOp'.at)]_vars

\* a span that came with a hash was signed, over that hash, by the local
\* identity, and a span that came with a confirmation is stored next to it
C29_Witness ==
    /\ lastOp.op = "appendToLedger"
    /\ lastOp.ok
    /\ \E a, b \in DOMAIN spans :
          /\ spans[a].this.hash = SuppliedHash
          /\ spans[a].confirmed_by # <<>>
          /\ spans[a].confirmed_by[1].signer_id = 1
          /\ spans[a].confirmed_by[1].signature.over = SuppliedHash
          /\ spans[b].this.hash # SuppliedHash
          /\ spans[b].confirmed_by = <<SuppliedConfirmation>>

\* C28: under appendToLedger and updateContractFromSpans calls a contract
\* record stays, a cancelled record stays cancelled, and a completed record
\* stays completed or becomes cancelled.
C28_StatusNeverRegresses ==
    [][\A t \in DOMAIN contracts :
          /\ t \in DOMAIN contracts'
          /\ contracts[t].status = "cancelled" => contracts'[t].status = "cancelled"
          /\ contracts[t].status = "completed" =>
                contracts'[t].status \in {"completed", "cancelled"}]_vars

\* a contract.completed span has just been appended to a trace whose record
\* was cancelled before
C28_Witness ==
    /\ lastOp.op = "appendToLedger"
    /\ lastOp.ok
    /\ spans[lastOp.id].type = "contract.completed"
    /\ lastOp.trace \in DOMAIN contracts
    /\ contracts[lastOp.trace].status = "cancelled"
    /\ Cardinality(StoredIn(lastOp.trace)) = 3

\* C26: every span the contract page has stored satisfies isValidSpan (an
\* object taken from a reply that fails isValidSpan is never stored).
C26_OnlyValidSpansStored ==
    \A id \in DOMAIN spans : isValidSpan(spans[id])

\* the step is a saveContract whose k-th appendToLedger call failed
SaveFailedAt(k) == lastOp'.op = "saveContract" /\ lastOp'.report.failedAt = k

\* C30: when the k-th appendToLedger of saveContract fails, spans 1..k-1 are
\* in the ledger and spans k..n have not been appended; a saveContract that
\* follows a failed one, with the same spans, fails at the first span, whose
\* id is stored, and appends nothing.
C30_PartialSaveAndRetry ==
    [][\A k \in 1..Len(generatedSpans) :
          SaveFailedAt(k) =>
              /\ \A i \in 1..(k - 1) : generatedSpans[i].id \in DOMAIN spans'
              /\ \A i \in k..Len(generatedSpans) :
                    generatedSpans[i].id \notin DOMAIN spans' \ DOMAIN spans
              /\ (lastOp.op = "saveContract" /\ ~lastOp.ok) =>
                    /\ k = 1
                    /\ generatedSpans[1].id \in DOMAIN spans
                    /\ spans' = spans]_vars

\* every appendToLedger call that was made has completed
AllCompleted ==
    /\ inflight # <<>>
    /\ \A c \in DOMAIN inflight : inflight[c].pc \in {"done", "failed"}

\* C27: when the appendToLedger calls that ran side by side have all
\* completed, every contract record lists the id of every stored span of its
\* trace and has the status the stored spans call for.
C27_ConcurrentAppendsAllProjected ==
    AllCompleted =>
        \A t \in DOMAIN contracts :
            /\ StoredIn(t) \subseteq Range(contracts[t].spans)
            /\ contracts[t].status = StatusFor(t)

====
